---- MODULE Spec2Model ----
(***************************************************************************)
(* A model of the four exercises of the repository:                        *)
(*   2_uncertainty/pagerank/pagerank.py   iterate_pagerank                 *)
(*   2_uncertainty/heredity/heredity.py   main, joint_probability, ...     *)
(*   0_search/tictactoe/tictactoe.py      player, result, terminal, ...    *)
(*   1_knowledge/knights/puzzle.py        knowledge0..3, main              *)
(* Each exercise has its own specification (SpecPR, SpecHD, SpecTTT,       *)
(* SpecKN); the variables of the other exercises stay at their idle value. *)
(***************************************************************************)
EXTENDS Integers, Sequences, FiniteSets, TLC

VARIABLES
    \* pagerank.py, iterate_pagerank
    corpus,          \* page -> set of pages linked to
    damping_factor,  \* the parameter d, an exact fraction
    ranks,           \* the dictionary ranks
    distribution,    \* the deep copy of ranks taken at the top of a pass
    change,          \* the loop flag
    prpc,            \* "idle" | "loop" | "done" | "ZeroDivisionError"
    passes,          \* passes of the while loop made so far
    \* pagerank.py, sample_pagerank (with corpus and damping_factor)
    samples,         \* the parameter n
    sampled,         \* the dictionary distribution of sample_pagerank
    current,         \* the variable page: the current page of the walk
    step,            \* the loop variable i: the next value range(1, n) gives
    spc,             \* "idle" | "loop" | "done"
    \* heredity.py, main
    people,          \* the family load_data returned: person -> record
    probabilities,   \* person -> gene and trait buckets
    ti, oi, wi,      \* positions of the three loops of main in their powersets
    have_trait, one_gene, two_genes, p,  \* the loop variables after the last call
    called,          \* joint_probability has been called
    hpc,             \* "idle" | "loop" | "done" | "ZeroDivisionError"
    \* tictactoe.py
    board,           \* the board a caller holds
    last,            \* the last call made on it and how it ended
    \* puzzle.py, main
    puzzle,          \* index of the puzzle of the outer loop, 0..3, 4 when over
    symbol,          \* index of the symbol of the inner loop in `symbols`
    model,           \* number of truth assignments model_check has examined
    holds,           \* no examined assignment satisfies knowledge and not query
    printed,         \* the <<puzzle, symbol>> lines printed so far
    kpc              \* "idle" | "run" | "done"

prvars == <<corpus, damping_factor, ranks, distribution, change, prpc, passes>>

hdvars == <<people, probabilities, ti, oi, wi, have_trait, one_gene, two_genes,
            p, called, hpc>>

spvars == <<samples, sampled, current, step, spc>>

tttvars == <<board, last>>

knvars == <<puzzle, symbol, model, holds, printed, kpc>>

vars == <<prvars, spvars, hdvars, tttvars, knvars>>

\* what the actions of one exercise leave alone
notpr == <<spvars, hdvars, tttvars, knvars>>
nothd == <<prvars, spvars, tttvars, knvars>>
notttt == <<prvars, spvars, hdvars, knvars>>
notkn == <<prvars, spvars, hdvars, tttvars>>
notsp == <<ranks, distribution, change, prpc, passes, hdvars, tttvars, knvars>>

(***************************************************************************)
(* Exact fractions <<numerator, denominator>>, denominator > 0, in lowest  *)
(* terms. They stand for the Python floats of pagerank.py.                 *)
(***************************************************************************)
RECURSIVE GCD(_, _)
GCD(a, b) == IF b = 0 THEN a ELSE GCD(b, a % b)

AbsInt(a) == IF a < 0 THEN -a ELSE a

RNorm(n, d) ==
    LET g == GCD(AbsInt(n), d)
    IN  IF n = 0 THEN <<0, 1>> ELSE <<n \div g, d \div g>>

RInt(k) == <<k, 1>>

RAdd(x, y) ==
    LET g == GCD(x[2], y[2])
        l == (x[2] \div g) * y[2]
    IN  RNorm(x[1] * (l \div x[2]) + y[1] * (l \div y[2]), l)

RNeg(x) == <<-x[1], x[2]>>

RSub(x, y) == RAdd(x, RNeg(y))

RMul(x, y) ==
    LET g1 == GCD(AbsInt(x[1]), y[2])
        g2 == GCD(AbsInt(y[1]), x[2])
    IN  IF x[1] = 0 \/ y[1] = 0 THEN <<0, 1>>
        ELSE <<(x[1] \div g1) * (y[1] \div g2), (x[2] \div g2) * (y[2] \div g1)>>

\* x / k for an integer k > 0
RDivInt(x, k) == RMul(x, <<1, k>>)

RAbs(x) == <<AbsInt(x[1]), x[2]>>

\* x > y
RGt(x, y) == RSub(x, y)[1] > 0

(***************************************************************************)
(* pagerank.py: iterate_pagerank and iterative_sum                         *)
(***************************************************************************)
MaxPages == 3
MaxPasses == 3

\* The corpora crawl() can return: every link targets a page of the corpus
\* and no page links to itself.
Corpora ==
    UNION { { c \in [1..n -> SUBSET (1..n)] : \A pg \in 1..n : pg \notin c[pg] }
            : n \in 1..MaxPages }

\* damping factors given to iterate_pagerank: 0, 1/2 and DAMPING = 0.85
DampingFactors == { <<0, 1>>, <<1, 2>>, <<17, 20>> }

\* the convergence threshold 0.001 of the loop
Threshold == <<1, 1000>>

RECURSIVE RSum(_, _)
\* the sum of f[q] over the pages q of S
RSum(f, S) ==
    IF S = {} THEN RInt(0)
    ELSE LET q == CHOOSE x \in S : TRUE
         IN  RAdd(f[q], RSum(f, S \ {q}))

len(s) == Cardinality(s)

\* a page whose division by len(corpus[page]) raises ZeroDivisionError
Dangling(c) == { q \in DOMAIN c : len(c[q]) = 0 }

\* iterative_sum(corpus, distribution, page): the loop variable reuses the
\* name of the parameter page, so the sum runs over every page of the
\* distribution and the parameter is never read.
iterative_sum(c, dist, page) ==
    RSum([q \in DOMAIN dist |-> RDivInt(dist[q], len(c[q]))], DOMAIN dist)

\* the right-hand side of the assignment to ranks[page]
new_rank(c, d, dist, page) ==
    RAdd(RDivInt(RSub(RInt(1), d), len(DOMAIN c)),
         RMul(d, iterative_sum(c, dist, page)))

PRStart ==
    /\ corpus \in Corpora
    /\ damping_factor \in DampingFactors
    /\ ranks = [page \in DOMAIN corpus |-> <<1, len(DOMAIN corpus)>>]
    /\ distribution = ranks
    /\ change = TRUE
    /\ prpc = "loop"
    /\ passes = 0

\* one pass of the while loop: the deep copy, then the for loop over the pages
Pass ==
    /\ prpc = "loop"
    /\ change
    /\ passes < MaxPasses
    /\ passes' = passes + 1
    /\ distribution' = ranks
    /\ IF Dangling(corpus) # {}
       THEN /\ prpc' = "ZeroDivisionError"
            /\ change' = FALSE
            /\ ranks' = ranks
       ELSE /\ prpc' = "loop"
            /\ ranks' = [page \in DOMAIN corpus |->
                            new_rank(corpus, damping_factor, ranks, page)]
            /\ change' = \E page \in DOMAIN corpus :
                            RGt(RAbs(RSub(ranks[page], ranks'[page])), Threshold)
    /\ UNCHANGED <<corpus, damping_factor, notpr>>

\* the loop condition fails: return ranks
Return ==
    /\ prpc = "loop"
    /\ ~change
    /\ prpc' = "done"
    /\ UNCHANGED <<corpus, damping_factor, ranks, distribution, change, passes>>
    /\ UNCHANGED notpr

PRNext == Pass \/ Return

PRIdle ==
    /\ corpus = << >>
    /\ damping_factor = <<0, 1>>
    /\ ranks = << >>
    /\ distribution = << >>
    /\ change = FALSE
    /\ prpc = "idle"
    /\ passes = 0


\* the sum of all ranks
RankSum == RSum(ranks, DOMAIN ranks)

\* the rank the damped random walk gives page p from the previous ranks:
\* only the pages q that link to p contribute, a dangling q gives rank(q)/N
LinkSum(c, dist, pg) ==
    RSum([q \in DOMAIN c |->
            IF c[q] = {} THEN RDivInt(dist[q], len(DOMAIN c))
            ELSE IF pg \in c[q] THEN RDivInt(dist[q], len(c[q]))
            ELSE RInt(0)], DOMAIN c)

DampedRank(c, d, dist, pg) ==
    RAdd(RDivInt(RSub(RInt(1), d), len(DOMAIN c)), RMul(d, LinkSum(c, dist, pg)))

\* C1: on a corpus without dangling pages every pass sets each rank to
\* (1-d)/N + d * (sum over the pages q linking to pg of rank(q)/|L(q)|),
\* rank(q) being the values of the previous pass.
C1_PassIsDampedRank ==
    (prpc = "loop" /\ passes > 0 /\ Dangling(corpus) = {}) =>
        \A pg \in DOMAIN corpus :
            ranks[pg] = DampedRank(corpus, damping_factor, distribution, pg)

\* C2: the ranks sum to 1 at initialisation, after every pass and on return.
C2_RanksSumToOne ==
    prpc \in {"loop", "done"} => RankSum = RInt(1)

\* C3: on a corpus with a dangling page iterate_pagerank does not fail, and
\* the dangling page q gives rank(q)/N to every page.
C3_DanglingHandled ==
    Dangling(corpus) # {} =>
        /\ prpc # "ZeroDivisionError"
        /\ passes > 0 =>
              \A pg \in DOMAIN corpus :
                 ranks[pg] = DampedRank(corpus, damping_factor, distribution, pg)

(***************************************************************************)
(* pagerank.py: sample_pagerank and transition_model                       *)
(***************************************************************************)
MaxSamples == 4

\* transition_model(corpus, page, damping_factor)
transition_model(c, page, d) ==
    LET links == len(c[page])
    IN  IF links # 0
        THEN [link \in DOMAIN c |->
                 IF link \in c[page]
                 THEN RAdd(RDivInt(RSub(RInt(1), d), len(DOMAIN c)), RDivInt(d, links))
                 ELSE RDivInt(RSub(RInt(1), d), len(DOMAIN c))]
        ELSE [link \in DOMAIN c |-> RDivInt(RInt(1), len(DOMAIN c))]

\* the pages random.choices can return for the weights: those of weight > 0
choices(weights) == { q \in DOMAIN weights : weights[q][1] > 0 }

\* the state after `page = random.choice(list(corpus.keys()))`
SPStart ==
    /\ corpus \in Corpora
    /\ damping_factor \in DampingFactors
    /\ samples \in 1..MaxSamples
    /\ sampled = [page \in DOMAIN corpus |-> RInt(0)]
    /\ current \in DOMAIN corpus
    /\ step = 1
    /\ spc = "loop"

SPIdle ==
    /\ samples = 0
    /\ sampled = << >>
    /\ current = 0
    /\ step = 0
    /\ spc = "idle"

\* one turn of the loop over range(1, n): the running average of the
\* transition distributions, then the draw of the next page
SampleStep ==
    /\ spc = "loop"
    /\ step < samples
    /\ LET current_distribution == transition_model(corpus, current, damping_factor)
       IN  sampled' = [page \in DOMAIN sampled |->
                          RDivInt(RAdd(RMul(RInt(step - 1), sampled[page]),
                                       current_distribution[page]), step)]
    /\ current' \in choices(sampled')
    /\ step' = step + 1
    /\ UNCHANGED <<corpus, damping_factor, samples, spc>>
    /\ UNCHANGED notsp

\* range(1, n) is exhausted: return distribution
SampleReturn ==
    /\ spc = "loop"
    /\ step >= samples
    /\ spc' = "done"
    /\ UNCHANGED <<corpus, damping_factor, samples, sampled, current, step>>
    /\ UNCHANGED notsp

SPNext == SampleStep \/ SampleReturn

\* C11: the values sample_pagerank holds for the pages sum to 1 after every
\* sampling step; the dictionary it returns has a value for every page of
\* the corpus and these values sum to 1, for every n >= 1.
C11_SampleSumsToOne ==
    /\ (spc \in {"loop", "done"} /\ step > 1) =>
          RSum(sampled, DOMAIN sampled) = RInt(1)
    /\ spc = "done" =>
          /\ DOMAIN sampled = DOMAIN corpus
          /\ RSum(sampled, DOMAIN sampled) = RInt(1)

(***************************************************************************)
(* heredity.py. Its floats are exact decimals here: a natural number is a  *)
(* sequence of limbs in base 10000, least significant first, without       *)
(* leading zero limbs, and a decimal [m, e] is m / 100^e.                  *)
(***************************************************************************)
RECURSIVE BFromInt(_)
BFromInt(k) == IF k = 0 THEN << >> ELSE <<k % 10000>> \o BFromInt(k \div 10000)

RECURSIVE BAddC(_, _, _)
BAddC(a, b, c) ==
    IF a = << >> /\ b = << >>
    THEN BFromInt(c)
    ELSE LET x == IF a = << >> THEN 0 ELSE Head(a)
             y == IF b = << >> THEN 0 ELSE Head(b)
             ta == IF a = << >> THEN << >> ELSE Tail(a)
             tb == IF b = << >> THEN << >> ELSE Tail(b)
             t == x + y + c
         IN  <<t % 10000>> \o BAddC(ta, tb, t \div 10000)

BAdd(a, b) == BAddC(a, b, 0)

RECURSIVE BMulSmallC(_, _, _)
\* a * k + c for 0 < k < 10000
BMulSmallC(a, k, c) ==
    IF a = << >> THEN BFromInt(c)
    ELSE LET t == Head(a) * k + c
         IN  <<t % 10000>> \o BMulSmallC(Tail(a), k, t \div 10000)

BMulSmall(a, k) == IF k = 0 THEN << >> ELSE BMulSmallC(a, k, 0)

BShift(a) == IF a = << >> THEN << >> ELSE <<0>> \o a

RECURSIVE BMul(_, _)
BMul(a, b) ==
    IF b = << >> THEN << >>
    ELSE BAdd(BMulSmall(a, Head(b)), BShift(BMul(a, Tail(b))))

RECURSIVE BStrip(_)
BStrip(a) ==
    IF a # << >> /\ a[Len(a)] = 0 THEN BStrip(SubSeq(a, 1, Len(a) - 1)) ELSE a

RECURSIVE BSubC(_, _, _)
\* a - b - c for a >= b + c
BSubC(a, b, c) ==
    IF a = << >> THEN << >>
    ELSE LET y == IF b = << >> THEN 0 ELSE Head(b)
             tb == IF b = << >> THEN << >> ELSE Tail(b)
             t == Head(a) - y - c
         IN  IF t < 0 THEN <<t + 10000>> \o BSubC(Tail(a), tb, 1)
             ELSE <<t>> \o BSubC(Tail(a), tb, 0)

BSub(a, b) == BStrip(BSubC(a, b, 0))

RECURSIVE BPow100(_, _)
\* a * 100^k
BPow100(a, k) == IF k = 0 THEN a ELSE BPow100(BMulSmall(a, 100), k - 1)

\* the decimal k / 100^e
Dec(k, e) == [m |-> BFromInt(k), e |-> e]

MaxInt(a, b) == IF a > b THEN a ELSE b

DMul(x, y) == [m |-> BMul(x.m, y.m), e |-> x.e + y.e]

DAdd(x, y) ==
    LET e == MaxInt(x.e, y.e)
    IN  [m |-> BAdd(BPow100(x.m, e - x.e), BPow100(y.m, e - y.e)), e |-> e]

\* x - y for x >= y
DSub(x, y) ==
    LET e == MaxInt(x.e, y.e)
    IN  [m |-> BSub(BPow100(x.m, e - x.e), BPow100(y.m, e - y.e)), e |-> e]

\* x and y are the same number
DEq(x, y) ==
    LET e == MaxInt(x.e, y.e)
    IN  BPow100(x.m, e - x.e) = BPow100(y.m, e - y.e)

DIsZero(x) == x.m = << >>

\* a quotient num / den of two decimals: what /= leaves in the table
QOf(x) == [num |-> x, den |-> Dec(1, 0)]

QPlus(q, x) == [num |-> DAdd(q.num, x), den |-> q.den]

QDiv(q, x) == [num |-> q.num, den |-> DMul(q.den, x)]

QIsOne(q) == ~DIsZero(q.den) /\ DEq(q.num, q.den)

QIsZero(q) == ~DIsZero(q.den) /\ DIsZero(q.num)

PROBS ==
    [ gene |-> [g \in 0..2 |->
                   IF g = 2 THEN Dec(1, 1) ELSE IF g = 1 THEN Dec(3, 1) ELSE Dec(96, 1)],
      trait |-> [g \in 0..2 |-> [b \in BOOLEAN |->
                   IF g = 2 THEN (IF b THEN Dec(65, 1) ELSE Dec(35, 1))
                   ELSE IF g = 1 THEN (IF b THEN Dec(56, 1) ELSE Dec(44, 1))
                   ELSE (IF b THEN Dec(1, 1) ELSE Dec(99, 1))]],
      mutation |-> Dec(1, 1) ]

\* the float literal 0.5
Half == Dec(50, 1)

\* the int literal 1
One == Dec(1, 0)

None == 0

\* the value of `probability` when the gene branch of `person` reaches its
\* trait factor: lines 147-227 (one gene), 233-256 (two genes), 262-285 (none)
gene_probability(ppl, person, og, tg) ==
    LET mom == ppl[person].mother
        dad == ppl[person].father
        mu == PROBS.mutation
    IN  IF person \in og THEN
            IF mom = None /\ dad = None THEN PROBS.gene[1]
            ELSE LET p1m == IF mom \in og THEN Half
                            ELSE IF mom \in tg THEN DSub(One, mu)
                            ELSE mu
                     p1 == IF dad \in og THEN DMul(p1m, Half)
                           ELSE IF dad \in tg THEN DMul(p1m, mu)
                           ELSE DMul(p1m, DSub(One, mu))
                     p2m == IF mom \in og THEN Half
                            ELSE IF mom \in tg THEN mu
                            ELSE DSub(One, mu)
                     p2 == IF dad \in og THEN DMul(p2m, Half)
                           ELSE IF dad \in tg THEN DMul(p2m, DSub(One, mu))
                           ELSE DMul(p2m, mu)
                 IN  DAdd(p1, p2)
        ELSE IF person \in tg THEN
            IF mom = None /\ dad = None THEN PROBS.gene[2]
            ELSE LET pm == IF mom \in og THEN Half
                           ELSE IF mom \in tg THEN DSub(One, mu)
                           ELSE mu
                 IN  IF dad \in og THEN DMul(pm, Half)
                     ELSE IF dad \in tg THEN DMul(pm, DSub(One, mu))
                     ELSE DMul(pm, mu)
        ELSE
            IF mom = None /\ dad = None THEN PROBS.gene[0]
            ELSE LET pm == IF mom \in og THEN Half
                           ELSE IF mom \in tg THEN DSub(One, mu)
                           ELSE mu
                 IN  IF dad \in og THEN DMul(pm, Half)
                     ELSE IF dad \in tg THEN DMul(pm, DSub(One, mu))
                     ELSE DMul(pm, mu)

\* the trait factors one person's `probability` is multiplied by: the factor
\* of the branch (lines 231 and 260; the branch for no gene has none) and then
\* line 288, which stands after the if statement and runs for every person
trait_probability(person, og, tg, ht) ==
    LET branch == IF person \in og THEN PROBS.trait[1][(person \in ht)]
                  ELSE IF person \in tg THEN PROBS.trait[2][(person \in ht)]
                  ELSE One
    IN  DMul(branch, PROBS.trait[0][(person \in ht)])

RECURSIVE cumulative_probability(_, _, _, _, _)
\* the loop of joint_probability over the first k people
cumulative_probability(ppl, k, og, tg, ht) ==
    IF k = 0 THEN One
    ELSE DMul(cumulative_probability(ppl, k - 1, og, tg, ht),
              DMul(gene_probability(ppl, k, og, tg),
                   trait_probability(k, og, tg, ht)))

joint_probability(ppl, og, tg, ht) ==
    cumulative_probability(ppl, Len(ppl), og, tg, ht)

(***************************************************************************)
(* heredity.py: main, powerset, update, normalize                          *)
(***************************************************************************)
MaxPeople == 3

NoTrait == "None"

\* load_data's value for the trait column: "1" -> True, "0" -> False
\* (written "True" and "False" here), blank -> None
TraitOf(b) == IF b THEN "True" ELSE "False"

\* the records load_data can give person i: both parents blank, or the
\* first two people of the file as mother and father
Persons(i) ==
    { [mother |-> None, father |-> None, trait |-> t]
        : t \in {"True", "False", NoTrait} }
    \cup { [mother |-> 1, father |-> 2, trait |-> t]
        : t \in IF i > 2 THEN {"True", "False", NoTrait} ELSE {} }

RECURSIVE FamiliesOf(_)
FamiliesOf(n) ==
    IF n = 0 THEN { << >> }
    ELSE { Append(f, r) : f \in FamiliesOf(n - 1), r \in Persons(n) }

Families == UNION { FamiliesOf(n) : n \in 1..MaxPeople }

RECURSIVE SortedSeq(_)
\* list(s): the members of s in ascending order
SortedSeq(s) ==
    IF s = {} THEN << >>
    ELSE LET x == CHOOSE y \in s : \A z \in s : y <= z
         IN  <<x>> \o SortedSeq(s \ {x})

RECURSIVE combinations(_, _)
\* itertools.combinations(s, r), each combination as a set
combinations(s, r) ==
    IF r = 0 THEN << {} >>
    ELSE IF Len(s) < r THEN << >>
    ELSE LET with == combinations(Tail(s), r - 1)
         IN  [i \in 1..Len(with) |-> {Head(s)} \cup with[i]]
             \o combinations(Tail(s), r)

RECURSIVE chain(_, _)
\* the combinations of s of the sizes r, r + 1, ..., len(s)
chain(s, r) ==
    IF r > Len(s) THEN << >> ELSE combinations(s, r) \o chain(s, r + 1)

powerset(s) == chain(SortedSeq(s), 0)

names == DOMAIN people

\* the test of main with all() written for any(): a set have_trait is
\* skipped only when it contradicts every person
fails_evidence_all(ppl, ht) ==
    \A person \in DOMAIN ppl :
        /\ ppl[person].trait # NoTrait
        /\ ppl[person].trait # TraitOf(person \in ht)

\* the test of main on the set have_trait of the outer loop
fails_evidence(ppl, ht) ==
    \E person \in DOMAIN ppl :
        /\ ppl[person].trait # NoTrait
        /\ ppl[person].trait # TraitOf(person \in ht)

update(probs, og, tg, ht, pr) ==
    [person \in DOMAIN probs |->
        [ gene |-> [g \in 0..2 |->
                      IF g = (IF person \in og THEN 1 ELSE IF person \in tg THEN 2 ELSE 0)
                      THEN QPlus(probs[person].gene[g], pr)
                      ELSE probs[person].gene[g]],
          trait |-> [b \in BOOLEAN |->
                      IF b = (person \in ht)
                      THEN QPlus(probs[person].trait[b], pr)
                      ELSE probs[person].trait[b]] ]]

gene_sum(probs, person) ==
    DAdd(DAdd(probs[person].gene[0].num, probs[person].gene[1].num),
         probs[person].gene[2].num)

trait_sum(probs, person) ==
    DAdd(probs[person].trait[TRUE].num, probs[person].trait[FALSE].num)

\* the people whose division in normalize raises ZeroDivisionError
ZeroSum(probs) ==
    { person \in DOMAIN probs :
        DIsZero(gene_sum(probs, person)) \/ DIsZero(trait_sum(probs, person)) }

\* normalize, up to its first division by zero if there is one
normalize(probs) ==
    [person \in DOMAIN probs |->
        LET gs == gene_sum(probs, person)
            ts == trait_sum(probs, person)
            reached == \A q \in ZeroSum(probs) : person <= q
            genes == reached /\ ~DIsZero(gs)
            traits == genes /\ ~DIsZero(ts)
        IN  [ gene |-> [g \in 0..2 |->
                          IF genes THEN QDiv(probs[person].gene[g], gs)
                          ELSE probs[person].gene[g]],
              trait |-> [b \in BOOLEAN |->
                          IF traits THEN QDiv(probs[person].trait[b], ts)
                          ELSE probs[person].trait[b]] ]]

HDStart ==
    /\ people \in Families
    /\ probabilities = [person \in DOMAIN people |->
                          [ gene |-> [g \in 0..2 |-> QOf(Dec(0, 0))],
                            trait |-> [b \in BOOLEAN |-> QOf(Dec(0, 0))] ]]
    /\ ti = 1 /\ oi = 1 /\ wi = 1
    /\ have_trait = {} /\ one_gene = {} /\ two_genes = {}
    /\ p = One
    /\ called = FALSE
    /\ hpc = "loop"

HDIdle ==
    /\ people = << >>
    /\ probabilities = << >>
    /\ ti = 1 /\ oi = 1 /\ wi = 1
    /\ have_trait = {} /\ one_gene = {} /\ two_genes = {}
    /\ p = One
    /\ called = FALSE
    /\ hpc = "idle"

\* the outer loop meets a set have_trait that contradicts an observed trait
SkipEvidence ==
    /\ hpc = "loop"
    /\ ti <= Len(powerset(names))
    /\ fails_evidence(people, powerset(names)[ti])
    /\ ti' = ti + 1
    /\ have_trait' = powerset(names)[ti]
    /\ UNCHANGED <<people, probabilities, oi, wi, one_gene, two_genes, p, called, hpc>>
    /\ UNCHANGED nothd

\* one turn of the innermost loop: joint_probability, then update
Enumerate ==
    /\ hpc = "loop"
    /\ ti <= Len(powerset(names))
    /\ ~fails_evidence(people, powerset(names)[ti])
    /\ LET sets == powerset(names)
           ht == sets[ti]
           og == sets[oi]
           twos == powerset(names \ og)
           tg == twos[wi]
           pr == joint_probability(people, og, tg, ht)
       IN  /\ have_trait' = ht
           /\ one_gene' = og
           /\ two_genes' = tg
           /\ p' = pr
           /\ probabilities' = update(probabilities, og, tg, ht, pr)
           /\ IF wi < Len(twos)
              THEN wi' = wi + 1 /\ UNCHANGED <<oi, ti>>
              ELSE IF oi < Len(sets)
              THEN wi' = 1 /\ oi' = oi + 1 /\ UNCHANGED ti
              ELSE wi' = 1 /\ oi' = 1 /\ ti' = ti + 1
    /\ called' = TRUE
    /\ UNCHANGED <<people, hpc>>
    /\ UNCHANGED nothd

\* the loops are over: normalize(probabilities)
Normalize ==
    /\ hpc = "loop"
    /\ ti > Len(powerset(names))
    /\ probabilities' = normalize(probabilities)
    /\ hpc' = IF ZeroSum(probabilities) = {} THEN "done" ELSE "ZeroDivisionError"
    /\ UNCHANGED <<people, ti, oi, wi, have_trait, one_gene, two_genes, p, called>>
    /\ UNCHANGED nothd

HDNext == SkipEvidence \/ Enumerate \/ Normalize

\* the number of copies an assignment gives a person
GeneCount(person, og, tg) ==
    IF person \in tg THEN 2 ELSE IF person \in og THEN 1 ELSE 0

\* the probability that a parent with g copies passes the harmful allele on
Transmits(g) ==
    IF g = 0 THEN PROBS.mutation
    ELSE IF g = 1 THEN Half
    ELSE DSub(One, PROBS.mutation)

\* the gene factor of a person with parents: a*b, a*(1-b) + (1-a)*b, (1-a)*(1-b)
Inherited(ppl, person, og, tg) ==
    LET a == Transmits(GeneCount(ppl[person].mother, og, tg))
        b == Transmits(GeneCount(ppl[person].father, og, tg))
        g == GeneCount(person, og, tg)
    IN  IF g = 2 THEN DMul(a, b)
        ELSE IF g = 1 THEN DAdd(DMul(a, DSub(One, b)), DMul(DSub(One, a), b))
        ELSE DMul(DSub(One, a), DSub(One, b))

\* C4: in every call of joint_probability, the gene factor of a person with
\* parents is a*b with two copies, a*(1-b) + (1-a)*b with one and
\* (1-a)*(1-b) with none, for every combination of the parents' copies.
C4_InheritedGeneFactor ==
    called =>
        \A person \in names :
            people[person].mother # None =>
                DEq(gene_probability(people, person, one_gene, two_genes),
                    Inherited(people, person, one_gene, two_genes))

RECURSIVE OncePerPerson(_, _, _, _, _)
\* the product, over the first k people, of the gene factor the code computes
\* and one trait factor, that of the person's gene count
OncePerPerson(ppl, k, og, tg, ht) ==
    IF k = 0 THEN One
    ELSE DMul(OncePerPerson(ppl, k - 1, og, tg, ht),
              DMul(gene_probability(ppl, k, og, tg),
                   PROBS.trait[GeneCount(k, og, tg)][(k \in ht)]))

\* C5: joint_probability returns the product over all people of the gene
\* factor and the trait factor, the trait factor applied exactly once and
\* taken at the gene count the assignment gives the person.
C5_TraitFactorOnce ==
    called =>
        DEq(p, OncePerPerson(people, Len(people), one_gene, two_genes, have_trait))

\* C6: a person whose trait is observed never has mass added to the
\* contradicted bucket, the normalising sums are positive (normalize does not
\* divide by zero), and after normalize the observed value has probability 1
\* and the other 0.
C6_EvidenceRespected ==
    /\ hpc # "ZeroDivisionError"
    /\ \A person \in names :
          people[person].trait # NoTrait =>
              LET t == people[person].trait = "True"
              IN  /\ DIsZero(probabilities[person].trait[~t].num)
                  /\ hpc = "done" =>
                        /\ QIsOne(probabilities[person].trait[t])
                        /\ QIsZero(probabilities[person].trait[~t])

\* C6 witness: main has normalized the table of a family with a child of
\* recorded parents whose trait is observed, and a person whose trait is not
C6_Witness ==
    /\ hpc = "done"
    /\ \E person \in names :
          /\ people[person].mother # None
          /\ people[person].trait = "True"
          /\ QIsOne(probabilities[person].trait[TRUE])
    /\ \E person \in names : people[person].trait = NoTrait

(***************************************************************************)
(* tictactoe.py                                                            *)
(***************************************************************************)
X == "X"
O == "O"
EMPTY == "None"

initial_state == [i \in 0..2 |-> [j \in 0..2 |-> EMPTY]]

Cells == (0..2) \X (0..2)

Count(b, mark) == Cardinality({ c \in Cells : b[c[1]][c[2]] = mark })

\* the eight rows, columns and diagonals
Lines ==
    { { <<i, j>> : j \in 0..2 } : i \in 0..2 }
    \cup { { <<i, j>> : i \in 0..2 } : j \in 0..2 }
    \cup { { <<i, i>> : i \in 0..2 }, { <<i, 2 - i>> : i \in 0..2 } }

\* some line is completely filled by the mark
HasLine(b, mark) == \E l \in Lines : \A c \in l : b[c[1]][c[2]] = mark

Full(b) == \A c \in Cells : b[c[1]][c[2]] # EMPTY

\* the game is over by the rules: a winning line, or no empty cell
GameOver(b) == HasLine(b, X) \/ HasLine(b, O) \/ Full(b)

\* the boards alternating legal moves reach from the initial board: X moves
\* first, and nobody moves after a winning line
LegalBoards ==
    { b \in [0..2 -> [0..2 -> {X, O, EMPTY}]] :
        /\ Count(b, X) - Count(b, O) \in {0, 1}
        /\ ~(HasLine(b, X) /\ HasLine(b, O))
        /\ HasLine(b, X) => Count(b, X) = Count(b, O) + 1
        /\ HasLine(b, O) => Count(b, X) = Count(b, O) }

terminal(b) == \A i \in 0..2 : \A j \in 0..2 : b[i][j] # EMPTY

player(b) ==
    IF Count(b, X) > Count(b, O) THEN O
    ELSE IF ~terminal(b) /\ Count(b, X) = Count(b, O) THEN X
    ELSE "None"

actions(b) == { <<i, j>> : i \in 0..2, j \in 0..2 } \ { c \in Cells : b[c[1]][c[2]] # EMPTY }

\* result(board, action). `raise GameOver` and `raise InvalidAction` call
\* constructors that need two arguments, and result_board[i, j] indexes a
\* list with a tuple: each of the three paths ends in a TypeError.
result(b, action) ==
    IF terminal(b) THEN [status |-> "TypeError", line |-> 59]
    ELSE IF action \notin actions(b) THEN [status |-> "TypeError", line |-> 61]
    ELSE [status |-> "TypeError", line |-> 66]

\* winner(board): board[0,0] indexes a list with a tuple
winner(b) ==
    IF ~terminal(b) THEN [status |-> "ok", value |-> "None"]
    ELSE [status |-> "TypeError", line |-> 78]

utility(b) ==
    IF winner(b).status # "ok" THEN winner(b)
    ELSE IF winner(b).value = X THEN [status |-> "ok", value |-> 1]
    ELSE IF winner(b).value = O THEN [status |-> "ok", value |-> -1]
    ELSE [status |-> "ok", value |-> 0]

minimax(b) == [status |-> "NotImplementedError", line |-> 150]

TTTStart ==
    /\ board \in LegalBoards
    /\ last = [fn |-> "none"]

TTTIdle ==
    /\ board = initial_state
    /\ last = [fn |-> "idle"]

CallTerminal ==
    /\ last.fn # "idle"
    /\ last' = [fn |-> "terminal", status |-> "ok", value |-> terminal(board)]
    /\ UNCHANGED board
    /\ UNCHANGED notttt

\* result leaves its argument alone: it works on a deep copy
CallResult(action) ==
    /\ last.fn # "idle"
    /\ last' = [fn |-> "result", action |-> action] @@ result(board, action)
    /\ UNCHANGED board
    /\ UNCHANGED notttt

CallUtility ==
    /\ last.fn # "idle"
    /\ last' = [fn |-> "utility"] @@ utility(board)
    /\ UNCHANGED board
    /\ UNCHANGED notttt

CallMinimax ==
    /\ last.fn # "idle"
    /\ last' = [fn |-> "minimax"] @@ minimax(board)
    /\ UNCHANGED board
    /\ UNCHANGED notttt

TTTNext ==
    \/ CallTerminal
    \/ \E i \in -1..3, j \in -1..3 : CallResult(<<i, j>>)
    \/ CallUtility
    \/ CallMinimax

\* C7: on every board alternating legal moves reach, terminal is True exactly
\* when a row, column or diagonal is filled by one mark or no cell is empty.
C7_TerminalIffOver ==
    last.fn = "terminal" => (last.value <=> GameOver(board))

\* the board with the mark at the cell and every other cell as in b
Placed(b, c, mark) == [b EXCEPT ![c[1]][c[2]] = mark]

\* C8: on a board where the game is not over, result with an action that
\* names an empty cell returns the board with player(board) at that cell
\* and every other cell unchanged.
C8_ResultPlacesMark ==
    (last.fn = "result" /\ ~GameOver(board) /\ last.action \in actions(board)) =>
        /\ last.status = "ok"
        /\ last.value = Placed(board, last.action, player(board))

\* the mark whose turn it is by the rules
Mover(b) == IF Count(b, X) = Count(b, O) THEN X ELSE O

RECURSIVE Value(_)
\* the value of a board under best play: 1 if X wins, -1 if O wins, 0 draw
Value(b) ==
    IF HasLine(b, X) THEN 1
    ELSE IF HasLine(b, O) THEN -1
    ELSE IF Full(b) THEN 0
    ELSE LET vs == { Value(Placed(b, c, Mover(b))) : c \in actions(b) }
         IN  IF Mover(b) = X
             THEN CHOOSE v \in vs : \A w \in vs : w <= v
             ELSE CHOOSE v \in vs : \A w \in vs : v <= w

\* the mover does not lose the board under best play
NotLost(b, mark) == IF mark = X THEN Value(b) >= 0 ELSE Value(b) <= 0

\* C9: on a board where the game is not over, minimax returns a legal action,
\* and the side that plays it keeps a board it does not lose: from the empty
\* board (value 0) that side never loses, and two such sides draw.
C9_MinimaxNeverLoses ==
    (last.fn = "minimax" /\ ~GameOver(board)) =>
        /\ last.status = "ok"
        /\ last.value \in actions(board)
        /\ NotLost(board, Mover(board)) =>
              NotLost(Placed(board, last.value, Mover(board)), Mover(board))

(***************************************************************************)
(* puzzle.py. The sentences and model_check come from the module logic,    *)
(* which puzzle.py imports; they follow the specification's PropSolver.    *)
(***************************************************************************)
Symbol(name) == [op |-> "Symbol", name |-> name]
Not(a) == [op |-> "Not", args |-> <<a>>]
And(conjuncts) == [op |-> "And", args |-> conjuncts]
Or(disjuncts) == [op |-> "Or", args |-> disjuncts]
Implication(a, b) == [op |-> "Implication", args |-> <<a, b>>]
Biconditional(a, b) == [op |-> "Biconditional", args |-> <<a, b>>]

AKnight == Symbol("A is a Knight")
AKnave == Symbol("A is a Knave")
BKnight == Symbol("B is a Knight")
BKnave == Symbol("B is a Knave")
CKnight == Symbol("C is a Knight")
CKnave == Symbol("C is a Knave")

knowledge0 ==
    And(<< Or(<<AKnight, AKnave>>),
           Implication(AKnight, Not(AKnave)),
           Implication(AKnave, Not(AKnight)),
           Biconditional(AKnight, And(<<AKnight, AKnave>>)) >>)

\* knowledge1 with A's statement as an implication only
knowledge1_implication ==
    And(<< Or(<<AKnight, AKnave>>),
           Implication(AKnight, Not(AKnave)),
           Or(<<BKnight, BKnave>>),
           Implication(BKnight, Not(BKnave)),
           Implication(AKnight, And(<<AKnave, BKnave>>)) >>)

knowledge1 ==
    And(<< Or(<<AKnight, AKnave>>),
           Implication(AKnight, Not(AKnave)),
           Or(<<BKnight, BKnave>>),
           Implication(BKnight, Not(BKnave)),
           Biconditional(AKnight, And(<<AKnave, BKnave>>)) >>)

knowledge2 ==
    And(<< Or(<<AKnight, AKnave>>),
           Implication(AKnight, Not(AKnave)),
           Or(<<BKnight, BKnave>>),
           Implication(BKnight, Not(BKnave)),
           Biconditional(AKnight, Or(<<And(<<AKnight, BKnight>>),
                                       And(<<AKnave, BKnave>>)>>)),
           Biconditional(BKnight, Or(<<And(<<AKnight, BKnave>>),
                                       And(<<AKnave, BKnight>>)>>)) >>)

knowledge3 ==
    And(<< Or(<<AKnight, AKnave>>),
           Implication(AKnight, Not(AKnave)),
           Or(<<BKnight, BKnave>>),
           Implication(BKnight, Not(BKnave)),
           Or(<<CKnight, CKnave>>),
           Implication(CKnight, Not(CKnave)),
           Biconditional(Or(<<AKnight, AKnight>>), Or(<<AKnight, AKnave>>)),
           Biconditional(BKnight, Biconditional(AKnight, AKnave)),
           Biconditional(BKnight, CKnave),
           Biconditional(CKnight, AKnight) >>)

\* the lists of main
symbols == <<AKnight, AKnave, BKnight, BKnave, CKnight, CKnave>>

puzzles == <<knowledge0, knowledge1, knowledge2, knowledge3>>

RECURSIVE symbols_of(_)
\* the atoms that appear in a sentence
symbols_of(sentence) ==
    IF sentence.op = "Symbol" THEN {sentence.name}
    ELSE UNION { symbols_of(sentence.args[i]) : i \in 1..Len(sentence.args) }

RECURSIVE evaluate(_, _)
\* the truth value of a sentence under an assignment m: name -> BOOLEAN
evaluate(sentence, m) ==
    IF sentence.op = "Symbol" THEN m[sentence.name]
    ELSE IF sentence.op = "Not" THEN ~evaluate(sentence.args[1], m)
    ELSE IF sentence.op = "And"
        THEN \A i \in 1..Len(sentence.args) : evaluate(sentence.args[i], m)
    ELSE IF sentence.op = "Or"
        THEN \E i \in 1..Len(sentence.args) : evaluate(sentence.args[i], m)
    ELSE IF sentence.op = "Implication"
        THEN ~evaluate(sentence.args[1], m) \/ evaluate(sentence.args[2], m)
    ELSE evaluate(sentence.args[1], m) = evaluate(sentence.args[2], m)

\* the symbols of knowledge and query, in the order of the list of main
Atoms(knowledge, query) ==
    LET S == symbols_of(knowledge) \cup symbols_of(query)
    IN  SelectSeq([i \in 1..Len(symbols) |-> symbols[i].name], LAMBDA n : n \in S)

RECURSIVE Pow2(_)
Pow2(k) == IF k = 0 THEN 1 ELSE 2 * Pow2(k - 1)

\* the k-th of the 2^|atoms| truth assignments, k counted from 0
Assignment(atoms, k) ==
    [n \in { atoms[i] : i \in 1..Len(atoms) } |->
        LET i == CHOOSE j \in 1..Len(atoms) : atoms[j] = n
        IN  (k \div Pow2(i - 1)) % 2 = 1]

KNStart ==
    /\ puzzle = 0
    /\ symbol = 1
    /\ model = 0
    /\ holds = TRUE
    /\ printed = {}
    /\ kpc = "run"

KNIdle ==
    /\ puzzle = 0
    /\ symbol = 1
    /\ model = 0
    /\ holds = TRUE
    /\ printed = {}
    /\ kpc = "idle"

\* model_check examines one more truth assignment
CheckModel ==
    /\ kpc = "run"
    /\ LET knowledge == puzzles[puzzle + 1]
           query == symbols[symbol]
           atoms == Atoms(knowledge, query)
           m == Assignment(atoms, model)
       IN  /\ model < Pow2(Len(atoms))
           /\ holds' = (holds /\ (evaluate(knowledge, m) => evaluate(query, m)))
    /\ model' = model + 1
    /\ UNCHANGED <<puzzle, symbol, printed, kpc>>
    /\ UNCHANGED notkn

\* model_check returns: main prints the symbol if it is entailed and goes on
\* to the next symbol, the next puzzle, or its end
PrintSymbol ==
    /\ kpc = "run"
    /\ model = Pow2(Len(Atoms(puzzles[puzzle + 1], symbols[symbol])))
    /\ printed' = IF holds THEN printed \cup {<<puzzle, symbols[symbol]>>} ELSE printed
    /\ model' = 0
    /\ holds' = TRUE
    /\ IF symbol < Len(symbols)
       THEN symbol' = symbol + 1 /\ UNCHANGED <<puzzle, kpc>>
       ELSE /\ symbol' = 1
            /\ IF puzzle + 1 < Len(puzzles)
               THEN puzzle' = puzzle + 1 /\ UNCHANGED kpc
               ELSE puzzle' = puzzle /\ kpc' = "done"
    /\ UNCHANGED notkn

KNNext == CheckModel \/ PrintSymbol

\* the symbols main has printed under a puzzle
PrintedFor(k) == { x[2] : x \in { y \in printed : y[1] = k } }

\* the loop of main has finished puzzle k
Finished(k) == puzzle > k \/ kpc = "done"

\* C10: main lists exactly AKnave for puzzle 0 (so not AKnight), exactly
\* AKnave and BKnight for puzzle 1, and exactly AKnave and BKnight for
\* puzzle 2; while a puzzle runs, nothing else is listed under it.
C10_KnightsEntailments ==
    /\ PrintedFor(0) \subseteq {AKnave}
    /\ PrintedFor(1) \subseteq {AKnave, BKnight}
    /\ PrintedFor(2) \subseteq {AKnave, BKnight}
    /\ Finished(0) => PrintedFor(0) = {AKnave}
    /\ Finished(1) => PrintedFor(1) = {AKnave, BKnight}
    /\ Finished(2) => PrintedFor(2) = {AKnave, BKnight}

\* C10 witness: main is over and has listed BKnight under puzzles 1 and 2
C10_Witness ==
    /\ kpc = "done"
    /\ <<1, BKnight>> \in printed
    /\ <<2, BKnight>> \in printed
    /\ <<0, AKnave>> \in printed

(***************************************************************************)
(* The specifications, one per exercise                                    *)
(***************************************************************************)
PRInit == PRStart /\ SPIdle /\ HDIdle /\ TTTIdle /\ KNIdle

SpecPR == PRInit /\ [][PRNext]_vars

HDInit == HDStart /\ SPIdle /\ PRIdle /\ TTTIdle /\ KNIdle

SpecHD == HDInit /\ [][HDNext]_vars

TTTInit == TTTStart /\ SPIdle /\ PRIdle /\ HDIdle /\ KNIdle

SpecTTT == TTTInit /\ [][TTTNext]_vars

KNInit == KNStart /\ SPIdle /\ PRIdle /\ HDIdle /\ TTTIdle

SpecKN == KNInit /\ [][KNNext]_vars

\* sample_pagerank runs alone: the variables of iterate_pagerank stay idle
SPInit ==
    /\ SPStart
    /\ ranks = << >> /\ distribution = << >> /\ change = FALSE
    /\ prpc = "idle" /\ passes = 0
    /\ HDIdle /\ TTTIdle /\ KNIdle

SpecSP == SPInit /\ [][SPNext]_vars

====
